---- MODULE Spec2Model ----
(***************************************************************************)
(* Model of dashboard/lib/transaction-service.ts (class TransactionService) *)
(*                                                                         *)
(* One scan pipeline per network.  A pipeline is suspended exactly at its  *)
(* chain-client round trips (getBlockNumber, getLogs, getBlock); every     *)
(* action below is the synchronous code that runs when one such call       *)
(* returns or throws, up to the next await.                                *)
(***************************************************************************)
EXTENDS Integers, Sequences, FiniteSets, TLC

VARIABLES
    chain,      \* the three chains as the chain clients see them, with the registry's deployment block
    mode,       \* "forward" (fetchEventsFromNetwork) or "reverse" (fetchEventsFromNetworkReverse)
    limit,      \* the limit argument of the export path: All or a non-negative integer
    merchantAddress, \* the optional recipient filter of the call: an address, or NoAddress
    registry,   \* per network: whether NETWORKS[networkKey] resolves to a descriptor when a pipeline reads it
    p,          \* per network: the local state of its pipeline (idle when it was not started)
    agg         \* the aggregating entry point: its position, completion order seen, and return value

vars == <<chain, mode, limit, merchantAddress, registry, p, agg>>

(***************************** program constants ***************************)
maxBlockRange == 49999
chunk == 50000
BatchSize == 20

(******************************* model bounds ******************************)
MaxChunks == 2      \* heights reach MaxChunks chunk lengths above the deployment block
MaxEvents == 3      \* logs on the chain of a single-pipeline run
MaxLimit == 2       \* numeric limits 0..MaxLimit
MaxAggEvents == 3   \* logs over all three chains of an aggregated run

NetworkKeys == <<"sepolia", "ethereum-classic", "mordor">>
Nets == {NetworkKeys[i] : i \in 1..Len(NetworkKeys)}
\* the limit value 'all', kept apart from every count
All == 0 - 1
Limits == {All} \cup (0..MaxLimit)

NETWORKS ==
    [n \in Nets |->
        CASE n = "sepolia" -> [chainId |-> 11155111, name |-> "Sepolia"]
          [] n = "ethereum-classic" -> [chainId |-> 61, name |-> "Ethereum Classic"]
          [] n = "mordor" -> [chainId |-> 63, name |-> "Mordor Testnet"]]

(******************************* sequences *********************************)
Range(s) == {s[i] : i \in 1..Len(s)}

Min(a, b) == IF a < b THEN a ELSE b

\* Array.prototype.slice(0, k)
Slice(s, k) == SubSeq(s, 1, Min(k, Len(s)))

RECURSIVE Concat(_)
Concat(ss) == IF ss = <<>> THEN <<>> ELSE Head(ss) \o Concat(Tail(ss))

\* faulty variant: no deduplication
MutUnique(s) == s

\* [...new Set(xs)]: the distinct values in order of first occurrence
RECURSIVE Unique(_)
Unique(s) ==
    IF s = <<>> THEN <<>>
    ELSE LET u == Unique(SubSeq(s, 1, Len(s) - 1))
         IN IF s[Len(s)] \in Range(u) THEN u ELSE Append(u, s[Len(s)])

(********************************* strings *********************************)
CharAt(s, k) == SubSeq(s, k, k)

\* String.prototype.slice(k) for k >= 0: what follows the first k characters
SliceFrom(s, k) == SubSeq(s, k + 1, Len(s))

\* String.prototype.slice(-k): the last k characters, the whole string when shorter
SliceLast(s, k) == IF Len(s) <= k THEN s ELSE SubSeq(s, Len(s) - k + 1, Len(s))

\* position of the first occurrence of pat in s at or after k, 0 when there is none
RECURSIVE IndexFrom(_, _, _)
IndexFrom(s, pat, k) ==
    IF k + Len(pat) - 1 > Len(s) THEN 0
    ELSE IF SubSeq(s, k, k + Len(pat) - 1) = pat THEN k
    ELSE IndexFrom(s, pat, k + 1)

\* String.prototype.replace(pat, ''): the first occurrence only
RemoveFirst(s, pat) ==
    LET k == IndexFrom(s, pat, 1)
    IN IF k = 0 THEN s ELSE SubSeq(s, 1, k - 1) \o SubSeq(s, k + Len(pat), Len(s))

RECURSIVE Repeat(_, _)
Repeat(c, k) ==
    IF k <= 0 THEN ""
    ELSE LET half == Repeat(c, k \div 2)
         IN IF k % 2 = 0 THEN half \o half ELSE half \o half \o c

\* String.prototype.padStart(width, c)
PadStart(s, width, c) == Repeat(c, width - Len(s)) \o s

DecDigits == "0123456789"

\* value of one hex digit, either case
HexValue(c) ==
    CASE c = "0" -> 0 [] c = "1" -> 1 [] c = "2" -> 2 [] c = "3" -> 3 [] c = "4" -> 4
      [] c = "5" -> 5 [] c = "6" -> 6 [] c = "7" -> 7 [] c = "8" -> 8 [] c = "9" -> 9
      [] c \in {"a", "A"} -> 10 [] c \in {"b", "B"} -> 11 [] c \in {"c", "C"} -> 12
      [] c \in {"d", "D"} -> 13 [] c \in {"e", "E"} -> 14 [] c \in {"f", "F"} -> 15

\* Number.prototype.toString() of a natural number
RECURSIVE ToDecimal(_)
ToDecimal(v) ==
    IF v < 10 THEN CharAt(DecDigits, v + 1)
    ELSE ToDecimal(v \div 10) \o CharAt(DecDigits, (v % 10) + 1)

\* the value of a short run of decimal digits
RECURSIVE DecNumber(_)
DecNumber(s) ==
    IF s = "" THEN 0 ELSE DecNumber(SubSeq(s, 1, Len(s) - 1)) * 10 + HexValue(CharAt(s, Len(s)))

\* the value of the four hex digits of s from position k
HexGroup(s, k) ==
    ((HexValue(CharAt(s, k)) * 16 + HexValue(CharAt(s, k + 1))) * 16
        + HexValue(CharAt(s, k + 2))) * 16 + HexValue(CharAt(s, k + 3))

\* An unsigned integer of any size is kept as its decimal digits, the empty string for zero.
\* m * s + carry over the first k digits of s, four digits at a time from the right
RECURSIVE TimesPlus(_, _, _, _)
TimesPlus(s, k, m, carry) ==
    IF k = 0 THEN (IF carry = 0 THEN "" ELSE ToDecimal(carry))
    ELSE LET lo == IF k > 4 THEN k - 3 ELSE 1
             v == DecNumber(SubSeq(s, lo, k)) * m + carry
         IN IF lo = 1 THEN ToDecimal(v)
            ELSE TimesPlus(s, lo - 1, m, v \div 10000) \o PadStart(ToDecimal(v % 10000), 4, "0")

\* the unsigned value of the hex digits of s from position k on, after the value acc of those
\* before: four digits at a time, a run of leading zeros passed over at once
RECURSIVE HexNumber(_, _, _)
HexNumber(s, k, acc) ==
    IF k > Len(s) THEN acc
    ELSE IF acc = "" /\ k + 15 <= Len(s) /\ SubSeq(s, k, k + 15) = "0000000000000000" THEN HexNumber(s, k + 16, "")
    ELSE IF k + 3 <= Len(s) THEN HexNumber(s, k + 4, TimesPlus(acc, Len(acc), 65536, HexGroup(s, k)))
    ELSE HexNumber(s, k + 1, TimesPlus(acc, Len(acc), 16, HexValue(CharAt(s, k))))

\* BigInt('0x...'), as what its toString() gives
BigIntOf(hex) ==
    LET digits == HexNumber(hex, 3, "")
    IN IF digits = "" THEN "0" ELSE digits

\* fraction.replace(/(0+)$/, '')
RECURSIVE StripTrailingZeros(_)
StripTrailingZeros(s) ==
    IF s # "" /\ CharAt(s, Len(s)) = "0" THEN StripTrailingZeros(SubSeq(s, 1, Len(s) - 1)) ELSE s

\* faulty variant: the fraction is cut to six digits whatever the precision
MutFormatUnits(value, decimals) ==
    LET display == PadStart(value, decimals, "0")
        integer == SubSeq(display, 1, Len(display) - decimals)
        fraction == StripTrailingZeros(SubSeq(display, Len(display) - decimals + 1,
                                              Len(display) - decimals + Min(6, decimals)))
    IN (IF integer = "" THEN "0" ELSE integer) \o (IF fraction # "" THEN "." \o fraction ELSE "")

\* viem formatUnits(value, decimals) for value >= 0, value.toString() being given
FormatUnits(value, decimals) ==
    LET display == PadStart(value, decimals, "0")
        integer == SubSeq(display, 1, Len(display) - decimals)
        fraction == StripTrailingZeros(SliceFrom(display, Len(display) - decimals))
    IN (IF integer = "" THEN "0" ELSE integer) \o (IF fraction # "" THEN "." \o fraction ELSE "")

\* formatAddress: drop the first '0x', keep the last 40 characters, prefix '0x'
FormatAddress(address) == "0x" \o SliceLast(RemoveFirst(address, "0x"), 40)

\* the 32-byte word of the hex digits of a uint256, right-aligned, without prefix
Word(hex) == PadStart(hex, 64, "0")

\* the 32-byte topic of an indexed address (40 hex digits)
Topic(address40) == "0x" \o PadStart(address40, 64, "0")

\* String.prototype.toLowerCase on one hex digit
LowerChar(c) ==
    CASE c = "A" -> "a" [] c = "B" -> "b" [] c = "C" -> "c"
      [] c = "D" -> "d" [] c = "E" -> "e" [] c = "F" -> "f" [] OTHER -> c

RECURSIVE Lower(_)
Lower(s) == IF s = "" THEN "" ELSE Lower(SubSeq(s, 1, Len(s) - 1)) \o LowerChar(CharAt(s, Len(s)))

RECURSIVE SameFrom(_, _, _)
SameFrom(a, b, k) ==
    k > Len(a) \/ (LowerChar(CharAt(a, k)) = LowerChar(CharAt(b, k)) /\ SameFrom(a, b, k + 1))

\* two hex renderings of the same 20 bytes (a topic word or a 0x-prefixed address)
SameAddress(a, b) ==
    LET x == SliceLast(a, 40)
        y == SliceLast(b, 40)
    IN Len(x) = Len(y) /\ SameFrom(x, y, 1)

(**************************** the chain clients ****************************)
\* client.getLogs({fromBlock, toBlock}): the logs of the chain inside the range, in chain order
GetLogs(n, fromBlock, toBlock) ==
    SelectSeq(chain[n].logs, LAMBDA l : fromBlock <= l.blockNumber /\ l.blockNumber <= toBlock)

\* no args (undefined), and no merchantAddress (undefined or the empty string, both falsy)
NoAddress == ""

\* client.getLogs({args, fromBlock, toBlock}): args.receiver is matched against the receiver topic
GetLogsArgs(n, args, fromBlock, toBlock) ==
    SelectSeq(GetLogs(n, fromBlock, toBlock),
              LAMBDA l : args = NoAddress \/ SameAddress(l.topics[3], args))

\* block.timestamp of client.getBlock({blockNumber}), in seconds: increasing with the block number
BlockTime(n, blockNumber) == chain[n].genesisTime + blockNumber

\* new Date(): the wall clock is not behind the newest block of any chain
LatestBlockTime ==
    LET ts == {BlockTime(n, chain[n].height) : n \in Nets}
    IN CHOOSE t \in ts : \A u \in ts : u <= t

WallClock == {LatestBlockTime + 1, LatestBlockTime + 2}

\* new Date(Number(block.timestamp) * 1000)
ToDate(seconds) == seconds * 1000

\* DEPLOYMENT_BLOCKS[networkKey] || BigInt(0)
StartBlock(n) == chain[n].deploymentBlock

(******************************* decoding **********************************)
\* the object literal built from one raw log; no timestamp property yet
MapEvent(n, log) ==
    [buyer |-> FormatAddress(log.topics[2]),
     receiver |-> FormatAddress(log.topics[3]),
     amountSC |-> FormatUnits(BigIntOf("0x" \o SubSeq(SliceFrom(log.data, 2), 1, 64)), 6),
     amountBC |-> FormatUnits(BigIntOf("0x" \o SliceFrom(SliceFrom(log.data, 2), 64)), 18),
     blockNumber |-> log.blockNumber,
     transactionHash |-> log.transactionHash,
     chainId |-> NETWORKS[n].chainId,
     networkName |-> NETWORKS[n].name,
     timestamp |-> <<>>]

\* faulty variant: decoding stamps every event with the date of its block
MutMapEvents(n, logs) ==
    [k \in 1..Len(logs) |->
        [MapEvent(n, logs[k]) EXCEPT !.timestamp = <<ToDate(BlockTime(n, logs[k].blockNumber))>>]]

MapEvents(n, logs) == [k \in 1..Len(logs) |-> MapEvent(n, logs[k])]

\* network.chainId in the map callback is a TypeError when NETWORKS[networkKey] is undefined;
\* the callback runs once per collected log
DecodeThrows(n, logs) == ~registry[n] /\ logs # <<>>

\* faulty variant: the filter is not passed to the log query
MutQueryArgs == NoAddress

\* args: merchantAddress ? { receiver: merchantAddress } : undefined
QueryArgs == IF merchantAddress # "" THEN merchantAddress ELSE NoAddress

\* faulty variant: the catch block rethrows
MutCaught(q) == [q EXCEPT !.pc = "rejected", !.threw = TRUE]

\* the catch block of a pipeline: log and return []
Caught(q) == [q EXCEPT !.pc = "done", !.result = <<>>, !.threw = TRUE]

(***************************** forward scanner *****************************)
FwdToBlock(fromBlock, currentBlock) ==
    IF fromBlock + maxBlockRange > currentBlock THEN currentBlock ELSE fromBlock + maxBlockRange

\* faulty variant: the next chunk skips a block
MutFwdNextFrom(toBlock) == toBlock + 2

FwdNextFrom(toBlock) == toBlock + 1

\* after the loop: decode everything collected and return it
FwdFinish(n, q) ==
    IF DecodeThrows(n, q.events) THEN Caught(q)
    ELSE [q EXCEPT !.pc = "done", !.result = MapEvents(n, q.events)]

\* faulty variant: the while test and the clamp read the height of the chain anew
MutFwdLoop(n, q) ==
    IF q.fromBlock <= chain[n].height
    THEN LET to == FwdToBlock(q.fromBlock, chain[n].height)
         IN [q EXCEPT !.pc = "getLogs", !.toBlock = to,
                      !.queried = Append(@, <<q.fromBlock, to, QueryArgs>>)]
    ELSE FwdFinish(n, q)

\* the while test; entering the body issues the next log query
FwdLoop(n, q) ==
    IF q.fromBlock <= q.currentBlock
    THEN LET to == FwdToBlock(q.fromBlock, q.currentBlock)
         IN [q EXCEPT !.pc = "getLogs", !.toBlock = to,
                      !.queried = Append(@, <<q.fromBlock, to, QueryArgs>>)]
    ELSE FwdFinish(n, q)

\* faulty variant: the second log query is issued while the first is awaited
MutFwdOnBlockNumber(n, q, height) ==
    LET q1 == FwdLoop(n, [q EXCEPT !.currentBlock = height, !.fromBlock = StartBlock(n), !.events = <<>>])
    IN IF q1.pc = "getLogs" /\ q1.toBlock < height
       THEN FwdLoop(n, [q1 EXCEPT !.fromBlock = FwdNextFrom(q1.toBlock)])
       ELSE q1

FwdOnBlockNumber(n, q, height) ==
    FwdLoop(n, [q EXCEPT !.currentBlock = height, !.fromBlock = StartBlock(n), !.events = <<>>])

\* faulty variant: the logs of a chunk are put before those of the chunks before
MutFwdOnLogs(n, q, purchaseEvents) ==
    FwdLoop(n, [q EXCEPT !.events = purchaseEvents \o @, !.fromBlock = FwdNextFrom(q.toBlock)])

FwdOnLogs(n, q, purchaseEvents) ==
    FwdLoop(n, [q EXCEPT !.events = @ \o purchaseEvents, !.fromBlock = FwdNextFrom(q.toBlock)])

(*************************** timestamp resolver ****************************)
\* blockTimestamps.get(blockNumber): undefined (no value) for a key never set
MapGet(m, k) == IF k \in DOMAIN m THEN <<m[k]>> ELSE <<>>

\* faulty variant: each event is given a date of its own
MutAttachFinish(q) ==
    [q EXCEPT !.pc = "done",
              !.result = [k \in 1..Len(q.mappedEvents) |->
                             [q.mappedEvents[k] EXCEPT
                                 !.timestamp = <<q.blockTimestamps[q.mappedEvents[k].blockNumber] + k>>]]]

AttachFinish(q) ==
    [q EXCEPT !.pc = "done",
              !.result = [k \in 1..Len(q.mappedEvents) |->
                             [q.mappedEvents[k] EXCEPT
                                 !.timestamp = MapGet(q.blockTimestamps, q.mappedEvents[k].blockNumber)]]]

\* faulty variant: every block that is left is looked up at once
MutBatch(uniqueBlocks, i) == SubSeq(uniqueBlocks, i + 1, Len(uniqueBlocks))

\* uniqueBlocks.slice(i, i + 20)
Batch(uniqueBlocks, i) == SubSeq(uniqueBlocks, i + 1, Min(i + BatchSize, Len(uniqueBlocks)))

\* the for test; entering the body starts every lookup of the batch
BatchLoop(q) ==
    IF q.i < Len(q.uniqueBlocks)
    THEN [q EXCEPT !.pc = "getBlock", !.pending = Range(Batch(q.uniqueBlocks, q.i)),
                   !.looked = @ \o Batch(q.uniqueBlocks, q.i)]
    ELSE AttachFinish(q)

AttachTimestamps(q, events) ==
    BatchLoop([q EXCEPT !.mappedEvents = events,
                        !.uniqueBlocks = Unique([k \in 1..Len(events) |-> events[k].blockNumber]),
                        !.blockTimestamps = <<>>,
                        !.i = 0])

\* one lookup of the batch settles with date ts; the batch ends when all have
OnBlockTimestamp(q, bn, ts) ==
    LET q1 == [q EXCEPT !.blockTimestamps = (bn :> ts) @@ @, !.pending = @ \ {bn}]
    IN IF q1.pending = {} THEN BatchLoop([q1 EXCEPT !.i = @ + BatchSize]) ELSE q1

\* faulty variant: a lookup that fails stores nothing for its block
MutOnBlockSkips(q, bn, now) ==
    LET q1 == [q EXCEPT !.pending = @ \ {bn}, !.fallbacks = @ \cup {bn}]
    IN IF q1.pending = {} THEN BatchLoop([q1 EXCEPT !.i = @ + BatchSize]) ELSE q1

\* faulty variant: getBlockTimestamp lets the exception out, into the pipeline's catch
MutOnBlockThrows(q, bn, now) == [Caught(q) EXCEPT !.fallbacks = @ \cup {bn}]

\* the catch block of getBlockTimestamp: the lookup settles with new Date()
OnBlockThrows(q, bn, now) ==
    [OnBlockTimestamp(q, bn, ToDate(now)) EXCEPT !.fallbacks = @ \cup {bn}]

(***************************** reverse scanner *****************************)
\* faulty variant: the lower end is not clamped to the deployment block
MutRevFromBlock(toBlock, startBlock) == toBlock - chunk

RevFromBlock(toBlock, startBlock) ==
    LET fromBlock == toBlock - chunk
    IN IF fromBlock < startBlock THEN startBlock ELSE fromBlock

\* faulty variant: the next chunk ends on the block the previous one started at
MutRevNextTo(fromBlock) == fromBlock

RevNextTo(fromBlock) == fromBlock - 1

\* faulty variant: ascending comparator
MutCmpBlockDesc(a, b) == a.blockNumber - b.blockNumber

\* (a, b) => Number(b.blockNumber - a.blockNumber)
CmpBlockDesc(a, b) == b.blockNumber - a.blockNumber

\* faulty variant: the collected events are left in the order the chunks delivered them
MutSortByBlock(s) == s

\* collectedEvents.sort(cmp): Array.prototype.sort is stable; x stays before y unless cmp(x, y) > 0
RECURSIVE InsertByBlock(_, _)
InsertByBlock(s, e) ==
    IF s = <<>> THEN <<e>>
    ELSE IF CmpBlockDesc(s[Len(s)], e) > 0
         THEN Append(InsertByBlock(SubSeq(s, 1, Len(s) - 1), e), s[Len(s)])
         ELSE Append(s, e)

RECURSIVE SortByBlock(_)
SortByBlock(s) ==
    IF s = <<>> THEN <<>>
    ELSE InsertByBlock(SortByBlock(SubSeq(s, 1, Len(s) - 1)), s[Len(s)])

\* faulty variant: the per-network truncation is missing
MutRevTruncate(sorted) == sorted

RevTruncate(sorted) == IF limit # All THEN Slice(sorted, limit) ELSE sorted

\* faulty variant: timestamps are resolved for everything collected
MutRevFinish(n, q) ==
    LET collectedEvents == SortByBlock(q.events)
    IN IF DecodeThrows(n, collectedEvents) THEN Caught(q)
       ELSE AttachTimestamps(q, MapEvents(n, collectedEvents))

\* after the loop: sort, truncate, decode, attach timestamps
RevFinish(n, q) ==
    LET collectedEvents == RevTruncate(SortByBlock(q.events))
    IN IF DecodeThrows(n, collectedEvents) THEN Caught(q)
       ELSE AttachTimestamps(q, MapEvents(n, collectedEvents))

\* the while test; entering the body issues the next log query
RevLoop(n, q) ==
    IF q.toBlock >= StartBlock(n)
    THEN LET from == RevFromBlock(q.toBlock, StartBlock(n))
         IN [q EXCEPT !.pc = "getLogs", !.fromBlock = from,
                      !.queried = Append(@, <<from, q.toBlock, QueryArgs>>)]
    ELSE RevFinish(n, q)

RevOnBlockNumber(n, q, height) ==
    RevLoop(n, [q EXCEPT !.currentBlock = height, !.toBlock = height, !.events = <<>>])

\* faulty variant: the scan never stops before the deployment block
MutRevEnough(collectedEvents) == FALSE

RevEnough(collectedEvents) == limit # All /\ Len(collectedEvents) >= limit

RevOnLogs(n, q, purchaseEvents) ==
    LET q1 == [q EXCEPT !.events = @ \o purchaseEvents]
    IN IF RevEnough(q1.events) THEN RevFinish(n, q1)
       ELSE IF q1.fromBlock <= StartBlock(n) THEN RevFinish(n, q1)
       ELSE RevLoop(n, [q1 EXCEPT !.toBlock = RevNextTo(q1.fromBlock)])

(******************************* aggregators *******************************)
\* faulty variant: ascending comparator
MutCmpTimestampDesc(a, b) ==
    IF a.timestamp = <<>> \/ b.timestamp = <<>> THEN 0 ELSE a.timestamp[1] - b.timestamp[1]

\* (a, b) => !a.timestamp || !b.timestamp ? 0 : b.timestamp.getTime() - a.timestamp.getTime()
CmpTimestampDesc(a, b) ==
    IF a.timestamp = <<>> \/ b.timestamp = <<>> THEN 0 ELSE b.timestamp[1] - a.timestamp[1]

\* allEvents.sort(cmp): Array.prototype.sort is stable; x stays before y unless cmp(x, y) > 0
RECURSIVE InsertByTimestamp(_, _)
InsertByTimestamp(s, e) ==
    IF s = <<>> THEN <<e>>
    ELSE IF CmpTimestampDesc(s[Len(s)], e) > 0
         THEN Append(InsertByTimestamp(SubSeq(s, 1, Len(s) - 1), e), s[Len(s)])
         ELSE Append(s, e)

RECURSIVE SortByTimestamp(_)
SortByTimestamp(s) ==
    IF s = <<>> THEN <<>>
    ELSE InsertByTimestamp(SortByTimestamp(SubSeq(s, 1, Len(s) - 1)), s[Len(s)])

\* faulty variant: of the events with one transactionHash only the first is kept
MutSpread(results) ==
    LET all == Concat([k \in 1..Len(NetworkKeys) |-> results[NetworkKeys[k]]])
        numbered == [k \in 1..Len(all) |-> <<k, all[k]>>]
        first == SelectSeq(numbered, LAMBDA x :
                     \A j \in 1..(x[1] - 1) : all[j].transactionHash # x[2].transactionHash)
    IN [k \in 1..Len(first) |-> first[k][2]]

\* [...sepoliaEvents, ...etcEvents, ...mordorEvents]
Spread(results) == Concat([k \in 1..Len(NetworkKeys) |-> results[NetworkKeys[k]]])

\* faulty variant: results are appended as the pipelines complete
MutFetchStableCoinPurchases(results) ==
    Concat([k \in 1..Len(agg.completed) |-> results[agg.completed[k]]])

FetchStableCoinPurchases(results) == Spread(results)

GlobalLimit(allEvents) == IF limit # All THEN Slice(allEvents, limit) ELSE allEvents

FetchTransactionsForExport(results) == GlobalLimit(SortByTimestamp(Spread(results)))

(********************************* state ***********************************)
IdlePipe ==
    [pc |-> "idle", currentBlock |-> 0, fromBlock |-> 0, toBlock |-> 0,
     events |-> <<>>, queried |-> <<>>, mappedEvents |-> <<>>, uniqueBlocks |-> <<>>,
     i |-> 0, pending |-> {}, looked |-> <<>>, blockTimestamps |-> <<>>, fallbacks |-> {},
     result |-> <<>>, threw |-> FALSE]

\* a pipeline just called: suspended on client.getBlockNumber()
StartedPipe == [IdlePipe EXCEPT !.pc = "getBlockNumber"]

\* keccak of the event signature, topics[0]; its value is not read
EventSignature == "0x" \o Repeat("e", 64)

\* one BoughtStableCoins log as the client returns it
RawLog(blockNumber, hash, buyer40, receiver40, amountSC, amountBC) ==
    [topics |-> <<EventSignature, Topic(buyer40), Topic(receiver40)>>,
     data |-> "0x" \o Word(amountSC) \o Word(amountBC),
     blockNumber |-> blockNumber,
     transactionHash |-> hash]

Buyer == Repeat("b", 40)
Merchant == "abcdef0123456789abcdef0123456789abcdef01"
OtherMerchant == Repeat("c", 40)

\* the logs of a chain: ascending blocks, the hash unique within the chain
LogsAt(blocks) ==
    [k \in 1..Len(blocks) |-> RawLog(blocks[k], k, Buyer, Merchant, "10", "1")]

NonDecreasing(s) == \A k \in 1..(Len(s) - 1) : s[k] <= s[k + 1]

BlockLists(cands, maxLen) ==
    {s \in UNION {[1..m -> cands] : m \in 0..maxLen} : NonDecreasing(s)}

EmptyChain == [deploymentBlock |-> 0, height |-> 0, genesisTime |-> 0, logs |-> <<>>]

(************************* a single pipeline under study *******************)
\* the network whose pipeline is run alone
ScanNet == "sepolia"

ScanDeploymentBlocks == {0, 1000}

\* heights around every chunk boundary of either scanner, and one below the deployment block
ScanHeights(start) ==
    {h \in {start + k * chunk + d : k \in 0..MaxChunks, d \in (0 - 1)..2} : h >= 0}

\* blocks that hold logs: the ends of the chunks of either scanner, the block below the
\* deployment block, and a block appended after the height was read
ScanBlocks(start, height) ==
    {b \in {start - 1, start, start + maxBlockRange, start + maxBlockRange + 1,
            height - chunk - 1, height - chunk, height, height + 1} : 0 <= b /\ start - 1 <= b}

ScanChains ==
    {[deploymentBlock |-> s, height |-> h, genesisTime |-> 0, logs |-> LogsAt(bs)] :
        <<s, h, bs>> \in
            {x \in UNION {UNION {{<<s, h, bs>> : bs \in BlockLists(ScanBlocks(s, h), MaxEvents)}
                                    : h \in ScanHeights(s)}
                             : s \in ScanDeploymentBlocks} : TRUE}}

InitScan ==
    /\ mode \in {"forward", "reverse"}
    /\ limit \in IF mode = "forward" THEN {All} ELSE Limits
    /\ \E c \in ScanChains : chain = [n \in Nets |-> IF n = ScanNet THEN c ELSE EmptyChain]
    /\ p = [n \in Nets |-> IF n = ScanNet THEN StartedPipe ELSE IdlePipe]
    /\ merchantAddress = NoAddress
    /\ registry = [n \in Nets |-> TRUE]
    /\ agg = [pc |-> "none", completed |-> <<>>, output |-> <<>>]

(******************************** actions **********************************)
\* the pipeline of n moves to q; a pipeline that returns is recorded in completion order
Resume(n, q) ==
    /\ p' = [p EXCEPT ![n] = q]
    /\ agg' = IF q.pc \in {"done", "rejected"} THEN [agg EXCEPT !.completed = Append(@, n)] ELSE agg
    /\ UNCHANGED <<chain, mode, limit, merchantAddress, registry>>

\* await client.getBlockNumber() returns the height
BlockNumberReturns(n) ==
    /\ p[n].pc = "getBlockNumber"
    /\ Resume(n, IF mode = "forward"
                 THEN FwdOnBlockNumber(n, p[n], chain[n].height)
                 ELSE RevOnBlockNumber(n, p[n], chain[n].height))

\* the log query a pipeline suspended on getLogs is waiting for
InFlight(q) == q.queried[Len(q.queried)]

\* await client.getLogs(...) returns the logs of the range asked for
LogsReturn(n) ==
    /\ p[n].pc = "getLogs"
    /\ Resume(n, IF mode = "forward"
                 THEN FwdOnLogs(n, p[n], GetLogsArgs(n, InFlight(p[n])[3], p[n].fromBlock, p[n].toBlock))
                 ELSE RevOnLogs(n, p[n], GetLogsArgs(n, InFlight(p[n])[3], p[n].fromBlock, p[n].toBlock)))

\* getBlockNumber or getLogs throws: the pipeline's catch returns []
\* faulty variant: the catch block returns what the earlier chunks delivered
MutClientThrows(n) ==
    /\ p[n].pc \in {"getBlockNumber", "getLogs"}
    /\ Resume(n, [p[n] EXCEPT !.pc = "done", !.result = MapEvents(n, p[n].events), !.threw = TRUE])

ClientThrows(n) ==
    /\ p[n].pc \in {"getBlockNumber", "getLogs"}
    /\ Resume(n, Caught(p[n]))

\* getBlockTimestamp: client.getBlock returns, the date of the block is stored
BlockReturns(n) ==
    /\ p[n].pc = "getBlock"
    /\ \E bn \in p[n].pending :
          Resume(n, OnBlockTimestamp(p[n], bn, ToDate(BlockTime(n, bn))))

\* getBlockTimestamp: client.getBlock throws, new Date() is stored instead
BlockThrows(n) ==
    /\ p[n].pc = "getBlock"
    /\ \E bn \in p[n].pending, now \in WallClock :
          Resume(n, OnBlockThrows(p[n], bn, now))

Pipeline(n) ==
    \/ ClientThrows(n)
    \/ BlockThrows(n)
    \/ BlockNumberReturns(n)
    \/ LogsReturn(n)
    \/ BlockReturns(n)

NextScan == \E n \in Nets : Pipeline(n)

SpecScan == InitScan /\ [][NextScan]_vars

(***************************** an aggregated call **************************)
\* the three chains of an aggregated run: two span two chunks, the clocks of the chains interleave
AggShape ==
    [n \in Nets |->
        CASE n = "sepolia" -> [deploymentBlock |-> 1000, height |-> 1000 + chunk + 1, genesisTime |-> 0]
          [] n = "ethereum-classic" -> [deploymentBlock |-> 0, height |-> chunk + 1, genesisTime |-> 30000]
          [] n = "mordor" -> [deploymentBlock |-> 0, height |-> 1, genesisTime |-> 60000]]

AggBlockLists(n) == BlockLists({AggShape[n].deploymentBlock, AggShape[n].height}, MaxAggEvents)

AggChains ==
    {[n \in Nets |-> [deploymentBlock |-> AggShape[n].deploymentBlock,
                      height |-> AggShape[n].height,
                      genesisTime |-> AggShape[n].genesisTime,
                      logs |-> LogsAt(bs[n])]] :
        bs \in {b \in [Nets -> UNION {AggBlockLists(n) : n \in Nets}] :
                   /\ \A n \in Nets : b[n] \in AggBlockLists(n)
                   /\ Len(Concat([k \in 1..Len(NetworkKeys) |-> b[NetworkKeys[k]]])) <= MaxAggEvents}}

\* fetchStableCoinPurchases (forward) or fetchTransactionsForExport (reverse) has started its three pipelines
InitAgg ==
    /\ mode \in {"forward", "reverse"}
    /\ limit \in IF mode = "forward" THEN {All} ELSE Limits
    /\ chain \in AggChains
    /\ p = [n \in Nets |-> StartedPipe]
    /\ merchantAddress = NoAddress
    /\ registry = [n \in Nets |-> TRUE]
    /\ agg = [pc |-> "awaiting", completed |-> <<>>, output |-> <<>>]

\* await Promise.all([...]) settles, then the rest of the entry point runs
Join ==
    /\ agg.pc = "awaiting"
    /\ \A n \in Nets : p[n].pc \in {"done", "rejected"}
    /\ agg' = IF \E n \in Nets : p[n].pc = "rejected"
              THEN [agg EXCEPT !.pc = "threw"]
              ELSE LET results == [n \in Nets |-> p[n].result]
                   IN [agg EXCEPT !.pc = "returned",
                                  !.output = IF mode = "forward"
                                             THEN FetchStableCoinPurchases(results)
                                             ELSE FetchTransactionsForExport(results)]
    /\ UNCHANGED <<chain, mode, limit, merchantAddress, registry, p>>

NextAgg == (\E n \in Nets : Pipeline(n)) \/ Join

SpecAgg == InitAgg /\ [][NextAgg]_vars

(*********************** a single pipeline with a filter *******************)
MaxFilterEvents == 3    \* logs on the chain of a filtered run

Stranger == Repeat("d", 40)

\* no filter, or the address of a receiver with events, or of one without
Filters == {NoAddress, "0x" \o Merchant, "0x" \o OtherMerchant, "0x" \o Stranger}

\* a chain of two chunks in either direction, logs at the chunk ends, each for one of two receivers
FilterHeight == chunk + 1
FilterBlocks == {0, maxBlockRange, maxBlockRange + 1, FilterHeight}

FilterChains ==
    {[deploymentBlock |-> 0, height |-> FilterHeight, genesisTime |-> 0,
      logs |-> [k \in 1..Len(bs) |-> RawLog(bs[k], k, Buyer, rs[k], "10", "1")]] :
        <<bs, rs>> \in UNION {{<<bs, rs>> : rs \in [1..Len(bs) -> {Merchant, OtherMerchant}]}
                                 : bs \in BlockLists(FilterBlocks, MaxFilterEvents)}}

InitFilter ==
    /\ mode \in {"forward", "reverse"}
    /\ limit \in IF mode = "forward" THEN {All} ELSE Limits
    /\ merchantAddress \in Filters
    /\ registry = [n \in Nets |-> TRUE]
    /\ \E c \in FilterChains : chain = [n \in Nets |-> IF n = ScanNet THEN c ELSE EmptyChain]
    /\ p = [n \in Nets |-> IF n = ScanNet THEN StartedPipe ELSE IdlePipe]
    /\ agg = [pc |-> "none", completed |-> <<>>, output |-> <<>>]

SpecFilter == InitFilter /\ [][NextScan]_vars

(*********************** a single pipeline decoding a log ******************)
\* the 20 bytes of Merchant and of a buyer, as a checksummed rendering writes them
MerchantMixedCase == "AbCdEf0123456789abcdef0123456789abcdef01"
BuyerMixedCase == "00000000219ab540356cBB839Cbe05303d7705Fa"

\* hex digits of amounts: zero, one base unit, the amounts below and above one whole token
\* of either precision, and the largest value of 64 bits
Amounts == {"0", "1", "75bcd15", "16e360", "de0b6b3a7640000", "14d1120d7b160000", "ffffffffffffffff"}

\* the decimal numeral of each amount
ValueOf(word) ==
    CASE word = Word("0") -> "0"
      [] word = Word("1") -> "1"
      [] word = Word("75bcd15") -> "123456789"
      [] word = Word("16e360") -> "1500000"
      [] word = Word("de0b6b3a7640000") -> "1000000000000000000"
      [] word = Word("14d1120d7b160000") -> "1500000000000000000"
      [] word = Word("ffffffffffffffff") -> "18446744073709551615"

\* one log at the deployment block of a chain of height zero
DecodeChains ==
    {[deploymentBlock |-> 0, height |-> 0, genesisTime |-> 0,
      logs |-> <<RawLog(0, 1, buyer, receiver, amountSC, amountBC)>>] :
        buyer \in {Buyer, BuyerMixedCase}, receiver \in {Merchant, MerchantMixedCase},
        amountSC \in Amounts, amountBC \in Amounts}

InitDecode ==
    /\ mode \in {"forward", "reverse"}
    /\ limit = All
    /\ merchantAddress = NoAddress
    /\ registry = [n \in Nets |-> TRUE]
    /\ \E c \in DecodeChains : chain = [n \in Nets |-> IF n = ScanNet THEN c ELSE EmptyChain]
    /\ p = [n \in Nets |-> IF n = ScanNet THEN StartedPipe ELSE IdlePipe]
    /\ agg = [pc |-> "none", completed |-> <<>>, output |-> <<>>]

SpecDecode == InitDecode /\ [][NextScan]_vars

(****************** an aggregated call with a registry defect **************)
\* three chains of height zero, each with one log at its deployment block or none
ConfigChains ==
    {[n \in Nets |-> [deploymentBlock |-> 0, height |-> 0, genesisTime |-> AggShape[n].genesisTime,
                      logs |-> LogsAt(bs[n])]] : bs \in [Nets -> {<<>>, <<0>>}]}

\* the descriptor of at least one network key is missing when the pipelines read the registry
InitConfig ==
    /\ mode \in {"forward", "reverse"}
    /\ limit = All
    /\ chain \in ConfigChains
    /\ p = [n \in Nets |-> StartedPipe]
    /\ merchantAddress = NoAddress
    /\ registry \in {r \in [Nets -> BOOLEAN] : \E n \in Nets : ~r[n]}
    /\ agg = [pc |-> "awaiting", completed |-> <<>>, output |-> <<>>]

SpecConfig == InitConfig /\ [][NextAgg]_vars

(************* an aggregated call whose client calls all settle ************)
MaxLiveEvents == 1      \* logs on the three chains together

LiveChains ==
    {[n \in Nets |-> [deploymentBlock |-> AggShape[n].deploymentBlock,
                      height |-> AggShape[n].height,
                      genesisTime |-> AggShape[n].genesisTime,
                      logs |-> LogsAt(bs[n])]] :
        bs \in {b \in [Nets -> UNION {AggBlockLists(n) : n \in Nets}] :
                   /\ \A n \in Nets : b[n] \in AggBlockLists(n)
                   /\ Len(Concat([k \in 1..Len(NetworkKeys) |-> b[NetworkKeys[k]]])) <= MaxLiveEvents}}

InitLive ==
    /\ mode \in {"forward", "reverse"}
    /\ limit \in IF mode = "forward" THEN {All} ELSE {All, 1}
    /\ chain \in LiveChains
    /\ p = [n \in Nets |-> StartedPipe]
    /\ merchantAddress = NoAddress
    /\ registry = [n \in Nets |-> TRUE]
    /\ agg = [pc |-> "awaiting", completed |-> <<>>, output |-> <<>>]

\* every call on a chain client eventually returns or throws, and a promise whose inputs
\* have settled is resumed
SpecLive ==
    InitLive /\ [][NextAgg]_vars /\ (\A n \in Nets : WF_vars(Pipeline(n))) /\ WF_vars(Join)

(****************** a single pipeline on a chain that grows ****************)
MaxGrowEvents == 3      \* logs on the chain once it has stopped growing

\* blocks appended at once: one, or more than a whole window of either scanner
GrowSteps == {1, chunk + 1}

GrowHeights == {0, maxBlockRange, chunk}

GrowChains ==
    {[deploymentBlock |-> 0, height |-> h, genesisTime |-> 0, logs |-> LogsAt(bs)] :
        <<h, bs>> \in UNION {{<<h, bs>> : bs \in BlockLists({0, h}, 1)} : h \in GrowHeights}}

InitGrow ==
    /\ mode \in {"forward", "reverse"}
    /\ limit \in IF mode = "forward" THEN {All} ELSE {All, 1}
    /\ \E c \in GrowChains : chain = [n \in Nets |-> IF n = ScanNet THEN c ELSE EmptyChain]
    /\ p = [n \in Nets |-> IF n = ScanNet THEN StartedPipe ELSE IdlePipe]
    /\ merchantAddress = NoAddress
    /\ registry = [n \in Nets |-> TRUE]
    /\ agg = [pc |-> "none", completed |-> <<>>, output |-> <<>>]

\* the chain gains d blocks, the newest holding a log, whatever the scan is doing
Grows(n) ==
    /\ Len(chain[n].logs) < MaxGrowEvents
    /\ \E d \in GrowSteps :
          chain' = [chain EXCEPT ![n].height = @ + d,
                                 ![n].logs = Append(@, RawLog(chain[n].height + d, Len(@) + 1,
                                                              Buyer, Merchant, "10", "1"))]
    /\ UNCHANGED <<mode, limit, merchantAddress, registry, p, agg>>

NextGrow == (\E n \in Nets : Pipeline(n)) \/ Grows(ScanNet)

SpecGrow == InitGrow /\ [][NextGrow]_vars

(****************** an aggregated call on chains with few logs *************)
MaxTrioEvents == 2      \* logs on the three chains together

TrioChains ==
    {[n \in Nets |-> [deploymentBlock |-> AggShape[n].deploymentBlock,
                      height |-> AggShape[n].height,
                      genesisTime |-> AggShape[n].genesisTime,
                      logs |-> LogsAt(bs[n])]] :
        bs \in {b \in [Nets -> UNION {AggBlockLists(n) : n \in Nets}] :
                   /\ \A n \in Nets : b[n] \in AggBlockLists(n)
                   /\ Len(Concat([k \in 1..Len(NetworkKeys) |-> b[NetworkKeys[k]]])) <= MaxTrioEvents}}

InitTrio ==
    /\ mode \in {"forward", "reverse"}
    /\ limit \in IF mode = "forward" THEN {All} ELSE {All, 1}
    /\ chain \in TrioChains
    /\ p = [n \in Nets |-> StartedPipe]
    /\ merchantAddress = NoAddress
    /\ registry = [n \in Nets |-> TRUE]
    /\ agg = [pc |-> "awaiting", completed |-> <<>>, output |-> <<>>]

SpecTrio == InitTrio /\ [][NextAgg]_vars

(************* a single pipeline resolving more than one batch *************)
MaxBatchBlocks == 21    \* distinct blocks holding logs
MaxBatchFallbacks == 1  \* lookups of one call that fail

\* one log in each of the first m blocks after the deployment block, for a full batch and for
\* more than one; and the same with a second log in the first of these blocks
BatchBlockLists ==
    UNION {{[k \in 1..m |-> k], [k \in 1..(m + 1) |-> IF k = 1 THEN 1 ELSE k - 1]}
              : m \in {BatchSize, MaxBatchBlocks}}

BatchChains ==
    {[deploymentBlock |-> 0, height |-> MaxBatchBlocks + 1, genesisTime |-> 0, logs |-> LogsAt(bs)] :
        bs \in BatchBlockLists}

InitBatch ==
    /\ mode \in {"forward", "reverse"}
    /\ limit = All
    /\ \E c \in BatchChains : chain = [n \in Nets |-> IF n = ScanNet THEN c ELSE EmptyChain]
    /\ p = [n \in Nets |-> IF n = ScanNet THEN StartedPipe ELSE IdlePipe]
    /\ merchantAddress = NoAddress
    /\ registry = [n \in Nets |-> TRUE]
    /\ agg = [pc |-> "none", completed |-> <<>>, output |-> <<>>]

Lowest(S) == CHOOSE x \in S : \A y \in S : x <= y
Highest(S) == CHOOSE x \in S : \A y \in S : y <= x

\* the answers of the client to the lookups of a batch: the oldest or the newest block
\* outstanding is answered first, and at most MaxBatchFallbacks lookups of a call fail
Answers(n) ==
    p[n].pc = "getBlock" =>
        /\ \E bn \in {Lowest(p[n].pending), Highest(p[n].pending)} :
              DOMAIN p'[n].blockTimestamps = DOMAIN p[n].blockTimestamps \cup {bn}
        /\ Cardinality(p'[n].fallbacks) <= MaxBatchFallbacks

BlockAnswered(n) == BlockReturns(n) /\ Answers(n)

BlockRefused(n) == BlockThrows(n) /\ Answers(n)

BatchPipeline(n) ==
    \/ ClientThrows(n)
    \/ BlockRefused(n)
    \/ BlockNumberReturns(n)
    \/ LogsReturn(n)
    \/ BlockAnswered(n)

NextBatch == \E n \in Nets : BatchPipeline(n)

SpecBatch == InitBatch /\ [][NextBatch]_vars

(******************************** properties *******************************)
\* the scan loop of q was left by its own test or break, not by an exception
LoopCompleted(q) == q.pc \in {"getBlock", "done"} /\ ~q.threw

\* a pipeline returned what it decoded (its catch block did not run)
Returned(q) == q.pc = "done" /\ ~q.threw

\* the logs of chain n inside [deploymentStartBlock, height read at scan start]
Matching(n) == GetLogs(n, StartBlock(n), p[n].currentBlock)

Identity(n, log) == <<NETWORKS[n].chainId, log.transactionHash>>
EventIdentity(e) == <<e.chainId, e.transactionHash>>
Identities(events) == {EventIdentity(events[k]) : k \in 1..Len(events)}

From(r) == r[1]
To(r) == r[2]
Last(s) == s[Len(s)]

\* C1: the ranges queried by the forward scan partition [S, H]: the first starts at S,
\* each next one starts at the previous toBlock + 1, and when the loop has run to its
\* end with S <= H the last one ends at H
C1_ForwardPartition ==
    \A n \in Nets :
        LET q == p[n] IN
        mode = "forward" =>
            /\ \A k \in 1..Len(q.queried) :
                   From(q.queried[k]) <= To(q.queried[k]) /\ To(q.queried[k]) <= q.currentBlock
            /\ Len(q.queried) > 0 => From(q.queried[1]) = StartBlock(n)
            /\ \A k \in 1..(Len(q.queried) - 1) :
                   From(q.queried[k + 1]) = To(q.queried[k]) + 1
            /\ (LoopCompleted(q) /\ StartBlock(n) <= q.currentBlock) =>
                   (Len(q.queried) > 0 /\ To(Last(q.queried)) = q.currentBlock)

C1_Witness ==
    \E n \in Nets :
        mode = "forward" /\ LoopCompleted(p[n]) /\ Len(p[n].queried) >= 3

\* C2: the ranges queried by the reverse scan go down from H without gap or overlap
\* (a cover of a suffix [x, H]), and with limit 'all' and S <= H a loop that has run
\* to its end has covered down to S
C2_ReversePartition ==
    \A n \in Nets :
        LET q == p[n] IN
        mode = "reverse" =>
            /\ \A k \in 1..Len(q.queried) :
                   From(q.queried[k]) <= To(q.queried[k]) /\ StartBlock(n) <= From(q.queried[k])
            /\ Len(q.queried) > 0 => To(q.queried[1]) = q.currentBlock
            /\ \A k \in 1..(Len(q.queried) - 1) :
                   To(q.queried[k + 1]) = From(q.queried[k]) - 1
            /\ (limit = All /\ LoopCompleted(q) /\ StartBlock(n) <= q.currentBlock) =>
                   (Len(q.queried) > 0 /\ From(Last(q.queried)) = StartBlock(n))

C2_Witness ==
    \E n \in Nets :
        mode = "reverse" /\ limit = All /\ LoopCompleted(p[n]) /\ Len(p[n].queried) >= 3

\* the provider's ceiling: the forward scanner's step is one less than it
ProviderMaxRange == maxBlockRange + 1

\* C3: every log query of either scanner spans at most 50,000 blocks, ends included
C3_WindowCeiling ==
    \A n \in Nets : \A k \in 1..Len(p[n].queried) :
        To(p[n].queried[k]) - From(p[n].queried[k]) + 1 <= ProviderMaxRange

\* C4: the reverse scan returns at most limit events when limit is a number, and with
\* limit 'all' a scan that no exception cut short returns every matching event of
\* [deploymentStartBlock, currentHeight], each once
C4_ReverseLimit ==
    \A n \in Nets :
        LET q == p[n] IN
        (mode = "reverse" /\ q.pc = "done") =>
            /\ limit # All => Len(q.result) <= limit
            /\ (limit = All /\ ~q.threw) =>
                   /\ Len(q.result) = Len(Matching(n))
                   /\ Identities(q.result) = {Identity(n, Matching(n)[k]) : k \in 1..Len(Matching(n))}

C4_Witness ==
    \E n \in Nets :
        /\ mode = "reverse" /\ limit # All /\ Returned(p[n])
        /\ limit > 0 /\ Len(p[n].events) > limit /\ Len(p[n].result) = limit

\* what a network owes the forward aggregation: nothing when its pipeline failed,
\* else its matching logs in chain order
Owed(n) == IF p[n].threw THEN <<>> ELSE MapEvents(n, Matching(n))

\* C5: fetchStableCoinPurchases returns normally whatever fails, a network whose height
\* read or log query threw contributes nothing, and the result holds exactly the events
\* of the other networks
C5_ForwardIsolation ==
    mode = "forward" =>
        /\ agg.pc # "threw"
        /\ \A n \in Nets : p[n].threw => p[n].pc = "done" /\ p[n].result = <<>>
        /\ agg.pc = "returned" =>
               agg.output = Concat([k \in 1..Len(NetworkKeys) |-> Owed(NetworkKeys[k])])

C5_Witness ==
    /\ mode = "forward" /\ agg.pc = "returned"
    /\ p["ethereum-classic"].threw /\ Len(chain["ethereum-classic"].logs) > 0
    /\ ~p["sepolia"].threw /\ ~p["mordor"].threw
    /\ Len(p["sepolia"].result) > 0 /\ Len(p["mordor"].result) > 0
    /\ Len(agg.output) = Len(p["sepolia"].result) + Len(p["mordor"].result)

EventsOf(n, events) == SelectSeq(events, LAMBDA e : e.chainId = NETWORKS[n].chainId)

RECURSIVE SumLen(_, _)
SumLen(f, S) ==
    IF S = {} THEN 0 ELSE LET n == CHOOSE x \in S : TRUE IN Len(f[n]) + SumLen(f, S \ {n})

Survivors == {n \in Nets : ~p[n].threw}

\* C6: fetchTransactionsForExport returns normally whatever fails, a network whose
\* height read or log query threw contributes nothing, and the events the other
\* networks returned are all merged, then truncated to the limit
C6_ExportIsolation ==
    mode = "reverse" =>
        /\ agg.pc # "threw"
        /\ \A n \in Nets : p[n].threw => p[n].pc = "done" /\ p[n].result = <<>>
        /\ agg.pc = "returned" =>
               LET results == [n \in Nets |-> p[n].result] IN
               /\ \A n \in Nets : p[n].threw => EventsOf(n, agg.output) = <<>>
               /\ Len(agg.output) = IF limit = All THEN SumLen(results, Survivors)
                                    ELSE Min(limit, SumLen(results, Survivors))
               /\ \A k \in 1..Len(agg.output) :
                      \E n \in Survivors : \E j \in 1..Len(results[n]) : agg.output[k] = results[n][j]

C6_Witness ==
    /\ mode = "reverse" /\ agg.pc = "returned"
    /\ \E n \in Nets : p[n].threw /\ Len(p[n].events) > 0
    /\ \E n \in Nets, m \in Nets :
          n # m /\ EventsOf(n, agg.output) # <<>> /\ EventsOf(m, agg.output) # <<>>

\* C7: in the result of fetchTransactionsForExport an event with the later timestamp
\* comes first
C7_SortedByTimestamp ==
    (mode = "reverse" /\ agg.pc = "returned") =>
        \A i \in 1..Len(agg.output), j \in 1..Len(agg.output) :
            (/\ agg.output[i].timestamp # <<>>
             /\ agg.output[j].timestamp # <<>>
             /\ agg.output[i].timestamp[1] > agg.output[j].timestamp[1]) => i < j

C7_Witness ==
    /\ mode = "reverse" /\ agg.pc = "returned" /\ Len(agg.output) >= 3
    /\ agg.output # Slice(Spread([n \in Nets |-> p[n].result]), Len(agg.output))
    /\ \E i \in 1..Len(agg.output) : agg.output[i].timestamp[1] > agg.output[Len(agg.output)].timestamp[1]

\* every matching log of every chain, with the date of its block
AllMatching ==
    UNION {{[id |-> Identity(n, Matching(n)[k]),
             time |-> ToDate(BlockTime(n, Matching(n)[k].blockNumber))] : k \in 1..Len(Matching(n))}
              : n \in Nets}

\* the timestamps a pipeline attached, by event identity
Attached ==
    UNION {{[id |-> EventIdentity(p[n].result[k]), time |-> p[n].result[k].timestamp[1]]
               : k \in 1..Len(p[n].result)} : n \in Nets}

\* C8: with a numeric limit N and no failed scan the export returns min(N, number of
\* matching events of all networks) events, and no event left out is later (by its
\* block's date, or by the timestamp it was given) than an event returned
C8_GlobalLatest ==
    (mode = "reverse" /\ agg.pc = "returned" /\ limit # All /\ Survivors = Nets) =>
        /\ Len(agg.output) = Min(limit, Cardinality(AllMatching))
        /\ Cardinality(Identities(agg.output)) = Len(agg.output)
        /\ Identities(agg.output) \subseteq {m.id : m \in AllMatching}
        /\ \A m \in AllMatching \cup Attached :
               m.id \notin Identities(agg.output) =>
                   \A k \in 1..Len(agg.output) : m.time <= agg.output[k].timestamp[1]

C8_Witness ==
    /\ mode = "reverse" /\ agg.pc = "returned" /\ limit # All /\ Survivors = Nets
    /\ Len(agg.output) = limit /\ limit >= 1
    /\ \E n \in Nets : Len(p[n].events) > limit /\ EventsOf(n, agg.output) # <<>>
    /\ \E n \in Nets : Len(p[n].result) > 0 /\ EventsOf(n, agg.output) = <<>>

NetIndex(chainId) == CHOOSE k \in 1..Len(NetworkKeys) : NETWORKS[NetworkKeys[k]].chainId = chainId

\* C9: fetchStableCoinPurchases returns the per-network results one after the other in
\* registration order, each in its own order, nothing dropped, in whatever order the
\* pipelines completed
C9_RegistrationOrder ==
    (mode = "forward" /\ agg.pc = "returned") =>
        /\ Len(agg.output) = SumLen([n \in Nets |-> p[n].result], Nets)
        /\ \A n \in Nets : EventsOf(n, agg.output) = p[n].result
        /\ \A i \in 1..Len(agg.output), j \in 1..Len(agg.output) :
               i < j => NetIndex(agg.output[i].chainId) <= NetIndex(agg.output[j].chainId)

C9_Witness ==
    /\ mode = "forward" /\ agg.pc = "returned"
    /\ agg.completed = <<"mordor", "ethereum-classic", "sepolia">>
    /\ \A n \in Nets : Len(p[n].result) > 0

\* C10: a block-timestamp lookup that throws does not abort the resolution: the
\* pipeline does not fail, its events are all returned, those of the failing block with
\* a wall-clock reading and those of the other blocks with the date of their block
C10_TimestampFallback ==
    \A n \in Nets :
        LET q == p[n] IN
        q.fallbacks # {} =>
            /\ ~q.threw /\ q.pc \in {"getBlock", "done"}
            /\ q.pc = "getBlock" => q.pending # {}
            /\ q.pc = "done" =>
                   /\ Len(q.result) = Len(q.mappedEvents)
                   /\ \A k \in 1..Len(q.result) :
                          /\ EventIdentity(q.result[k]) = EventIdentity(q.mappedEvents[k])
                          /\ q.result[k].blockNumber = q.mappedEvents[k].blockNumber
                          /\ IF q.result[k].blockNumber \in q.fallbacks
                             THEN q.result[k].timestamp \in {<<ToDate(now)>> : now \in WallClock}
                             ELSE q.result[k].timestamp = <<ToDate(BlockTime(n, q.result[k].blockNumber))>>

C10_Witness ==
    \E n \in Nets :
        LET q == p[n] IN
        /\ q.pc = "done" /\ q.fallbacks # {} /\ Len(q.result) >= 2
        /\ \E k \in 1..Len(q.result) : q.result[k].blockNumber \in q.fallbacks
        /\ \E k \in 1..Len(q.result) : q.result[k].blockNumber \notin q.fallbacks

Args(r) == r[3]

\* C11: with a recipient filter every log query carries it on the receiver topic, without one
\* every query is unfiltered, and the forward scan returns the unfiltered result restricted to
\* the events whose receiver is the filter's address
C11_FilterPushdown ==
    \A n \in Nets :
        LET q == p[n] IN
        /\ \A k \in 1..Len(q.queried) : Args(q.queried[k]) = merchantAddress
        /\ (mode = "forward" /\ Returned(q)) =>
               q.result = SelectSeq(MapEvents(n, Matching(n)),
                                    LAMBDA e : merchantAddress = NoAddress
                                               \/ SameAddress(e.receiver, merchantAddress))

C11_Witness ==
    \E n \in Nets :
        /\ mode = "forward" /\ Returned(p[n]) /\ merchantAddress = "0x" \o Merchant
        /\ Len(p[n].queried) = 2
        /\ Len(p[n].result) = 2 /\ Len(Matching(n)) = 3
        /\ p[n].result[1].blockNumber < p[n].result[2].blockNumber

\* the raw log an event was decoded from
LogOf(n, e) == CHOOSE l \in Range(chain[n].logs) : l.transactionHash = e.transactionHash

\* C12: buyer and receiver are "0x" followed by the low-order 20 bytes of the topic in
\* lowercase hex, whatever the case of the topic's digits
C12_LowercaseAddresses ==
    \A n \in Nets : \A k \in 1..Len(p[n].result) :
        LET e == p[n].result[k]
            l == LogOf(n, e)
        IN /\ e.buyer = "0x" \o Lower(SliceLast(l.topics[2], 40))
           /\ e.receiver = "0x" \o Lower(SliceLast(l.topics[3], 40))

RECURSIVE StripLeadingZeros(_)
StripLeadingZeros(s) ==
    IF Len(s) > 1 /\ CharAt(s, 1) = "0" THEN StripLeadingZeros(SliceFrom(s, 1)) ELSE s

\* numeral is the shortest decimal numeral of value / 10^decimals: an integer part without
\* leading zeros, a fraction without trailing zeros, no point when the fraction is empty,
\* and the digits of value when the fraction is filled up to the precision
Exact(numeral, value, decimals) ==
    LET dot == IndexFrom(numeral, ".", 1)
        integer == IF dot = 0 THEN numeral ELSE SubSeq(numeral, 1, dot - 1)
        fraction == IF dot = 0 THEN "" ELSE SliceFrom(numeral, dot)
    IN /\ integer # "" /\ (Len(integer) > 1 => CharAt(integer, 1) # "0")
       /\ dot # 0 => (fraction # "" /\ CharAt(fraction, Len(fraction)) # "0")
       /\ Len(fraction) <= decimals
       /\ StripLeadingZeros(integer \o fraction \o Repeat("0", decimals - Len(fraction))) = value

FirstWord(data) == SubSeq(data, 3, 66)
SecondWord(data) == SubSeq(data, 67, 130)

\* C13: amountSC is the exact numeral of the first data word with six decimals and amountBC
\* that of the second with eighteen: 123456789 gives "123.456789" and zero gives "0"
C13_ExactAmounts ==
    \A n \in Nets : \A k \in 1..Len(p[n].result) :
        LET e == p[n].result[k]
            l == LogOf(n, e)
        IN /\ Exact(e.amountSC, ValueOf(FirstWord(l.data)), 6)
           /\ Exact(e.amountBC, ValueOf(SecondWord(l.data)), 18)
           /\ FirstWord(l.data) = Word("75bcd15") => e.amountSC = "123.456789"
           /\ FirstWord(l.data) = Word("0") => e.amountSC = "0"

C13_Witness ==
    \E n \in Nets :
        /\ Returned(p[n]) /\ Len(p[n].result) = 1
        /\ p[n].result[1].amountSC = "123.456789"
        /\ p[n].result[1].amountBC = "1.5"

C15_WithinScanRange ==
    \A n \in Nets :
        LET q == p[n]
            Inside(b) == StartBlock(n) <= b /\ b <= q.currentBlock
        IN /\ \A k \in 1..Len(q.queried) :
                  StartBlock(n) <= From(q.queried[k]) /\ To(q.queried[k]) <= q.currentBlock
           /\ \A k \in 1..Len(q.events) : Inside(q.events[k].blockNumber)
           /\ \A k \in 1..Len(q.result) : Inside(q.result[k].blockNumber)

C15_Witness ==
    \E n \in Nets :
        /\ mode = "reverse" /\ Returned(p[n]) /\ StartBlock(n) > 0
        /\ \E k \in 1..Len(chain[n].logs) : chain[n].logs[k].blockNumber = StartBlock(n) - 1
        /\ \E k \in 1..Len(chain[n].logs) : chain[n].logs[k].blockNumber = p[n].currentBlock + 1
        /\ Len(p[n].queried) = 2 /\ From(Last(p[n].queried)) = StartBlock(n)
        /\ Len(p[n].result) = 1 /\ p[n].result[1].blockNumber = StartBlock(n)

\* C16: the result of the reverse scan is in descending block order, and it is in the order
\* the events had before their timestamps were attached
C16_ReverseSorted ==
    \A n \in Nets :
        LET q == p[n] IN
        (mode = "reverse" /\ Returned(q)) =>
            /\ \A i, j \in 1..Len(q.result) : i < j => q.result[i].blockNumber >= q.result[j].blockNumber
            /\ Len(q.result) = Len(q.mappedEvents)
            /\ \A k \in 1..Len(q.result) : q.result[k] = [q.mappedEvents[k] EXCEPT !.timestamp = q.result[k].timestamp]

C16_Witness ==
    \E n \in Nets :
        LET q == p[n] IN
        /\ mode = "reverse" /\ Returned(q)
        /\ Len(q.result) = 3 /\ Len(q.queried) = 2
        /\ q.events[1].blockNumber < q.events[2].blockNumber
        /\ q.result[1].blockNumber > q.result[2].blockNumber
        /\ q.result[2].blockNumber > q.result[3].blockNumber
        /\ q.fallbacks # {}

\* C17: on the forward path no block is looked up for its timestamp, and no event of a
\* pipeline or of the result of fetchStableCoinPurchases carries a timestamp
C17_ForwardNoTimestamp ==
    mode = "forward" =>
        /\ \A n \in Nets :
              /\ p[n].pc # "getBlock" /\ p[n].looked = <<>> /\ p[n].pending = {}
              /\ \A k \in 1..Len(p[n].result) : p[n].result[k].timestamp = <<>>
        /\ \A k \in 1..Len(agg.output) : agg.output[k].timestamp = <<>>

C17_Witness ==
    /\ mode = "forward" /\ agg.pc = "returned"
    /\ Len(agg.output) = 3
    /\ agg.output[1].chainId # agg.output[3].chainId
    /\ \E n \in Nets : Len(p[n].queried) = 2

\* a log query issued after another lies strictly beyond it: above its toBlock in the forward
\* scan, below its fromBlock in the reverse scan
Advances(n) ==
    LET was == p[n].queried
        now == p'[n].queried
    IN Len(now) > Len(was) =>
          /\ Len(now) = Len(was) + 1
          /\ Len(was) > 0 => IF mode = "forward" THEN From(Last(now)) > To(Last(was))
                                                 ELSE To(Last(now)) < From(Last(was))

\* the number of windows of a scan of [S, H] whose bound moves by at least maxBlockRange + 1
MaxQueries(n) ==
    IF p[n].currentBlock < StartBlock(n) THEN 0
    ELSE (p[n].currentBlock - StartBlock(n)) \div (maxBlockRange + 1) + 1

\* C18: when every client call settles, both entry points eventually return; each scan
\* issues a bounded number of log queries, each strictly beyond the one before; and the
\* call returns even when networks fail
C18_AlwaysReturns ==
    /\ <>(agg.pc = "returned")
    /\ [][\A n \in Nets : Advances(n)]_vars
    /\ [](\A n \in Nets : Len(p[n].queried) <= MaxQueries(n))

C18_Witness ==
    /\ agg.pc = "returned"
    /\ \E n \in Nets : p[n].threw /\ Len(p[n].queried) = 1
    /\ \E n \in Nets : ~p[n].threw /\ Len(p[n].queried) = 2 /\ Len(p[n].result) = 1

\* C19: the reverse scan with a numeric limit N that did not fail returns min(N, number of
\* matching logs in [S, H]) events, and no matching log it left out is in a later block
\* than an event it returned
C19_LatestPerChain ==
    \A n \in Nets :
        LET q == p[n] IN
        (mode = "reverse" /\ limit # All /\ Returned(q)) =>
            /\ Len(q.result) = Min(limit, Len(Matching(n)))
            /\ Identities(q.result) \subseteq {Identity(n, Matching(n)[k]) : k \in 1..Len(Matching(n))}
            /\ \A k \in 1..Len(Matching(n)) :
                  Identity(n, Matching(n)[k]) \notin Identities(q.result) =>
                      \A j \in 1..Len(q.result) : Matching(n)[k].blockNumber <= q.result[j].blockNumber

C19_Witness ==
    \E n \in Nets :
        LET q == p[n] IN
        /\ mode = "reverse" /\ limit = 2 /\ Returned(q)
        /\ Len(Matching(n)) = 3 /\ Len(q.result) = 2
        /\ Len(q.queried) = 1 /\ From(q.queried[1]) > StartBlock(n)
        /\ Len(q.events) = 2
        /\ q.result[1].blockNumber > q.result[2].blockNumber

\* the logs the reverse scan of chain n has been given by its first k queries
CollectedBy(n, k) == GetLogs(n, From(p[n].queried[k]), To(p[n].queried[1]))

\* C20: in the reverse scan of each chain, whatever the other chains do, no log query is
\* issued once the collected count has reached a numeric limit, and a scan whose loop ended
\* either collected the limit or reached the deployment block; with limit "all" it always
\* reached the deployment block
C20_PerChainEarlyStop ==
    mode = "reverse" =>
        \A n \in Nets :
            LET q == p[n] IN
            /\ \A k \in 2..Len(q.queried) : limit = All \/ Len(CollectedBy(n, k - 1)) < limit
            /\ (LoopCompleted(q) /\ StartBlock(n) <= q.currentBlock) =>
                   \/ limit # All /\ Len(q.events) >= limit
                   \/ From(Last(q.queried)) = StartBlock(n)

C20_Witness ==
    /\ mode = "reverse" /\ limit = 1
    /\ \E n, m \in Nets :
          /\ LoopCompleted(p[n]) /\ Len(p[n].queried) = 1 /\ From(p[n].queried[1]) > StartBlock(n)
          /\ Len(p[n].events) >= 1
          /\ LoopCompleted(p[m]) /\ Len(p[m].queried) = 2 /\ From(Last(p[m].queried)) = StartBlock(m)
          /\ Len(p[m].events) = 1

\* the height is read while no log query has been issued, and never again
ReadsHeightOnce(n) ==
    /\ p[n].pc = "getBlockNumber" => p[n].queried = <<>>
    /\ p[n].pc # "getBlockNumber" =>
           p'[n].pc # "getBlockNumber" /\ p'[n].currentBlock = p[n].currentBlock

\* the number of windows of width w that cover [S, H]
Windows(start, height, w) == IF height < start THEN 0 ELSE (height - start) \div w + 1

\* C21: each scan reads the height once, before its first log query; whatever the chain
\* gains meanwhile, no query ends above the height read, and a scan that runs to the
\* deployment block issues the number of queries the height read calls for
C21_SnapshotAtStart ==
    /\ [][\A n \in Nets : ReadsHeightOnce(n)]_vars
    /\ [](\A n \in Nets :
             LET q == p[n] IN
             /\ \A k \in 1..Len(q.queried) : To(q.queried[k]) <= q.currentBlock
             /\ (LoopCompleted(q) /\ mode = "forward") =>
                    Len(q.queried) = Windows(StartBlock(n), q.currentBlock, maxBlockRange + 1)
             /\ (LoopCompleted(q) /\ mode = "reverse" /\ limit = All) =>
                    Len(q.queried) = Windows(StartBlock(n), q.currentBlock, chunk + 1))

C21_Witness ==
    \E n \in Nets :
        /\ Returned(p[n]) /\ Len(p[n].queried) = 2
        /\ chain[n].height > p[n].currentBlock + chunk
        /\ Len(p[n].result) < Len(chain[n].logs)
        /\ Len(p[n].result) = 1

\* the log queries of a pipeline that have returned: all but the one awaited
Answered(q) == IF q.pc = "getLogs" THEN Len(q.queried) - 1 ELSE Len(q.queried)

\* a pipeline issues a log query only in the step that reads the height or that is resumed with
\* the logs of the query before, one query at a time, and then awaits it
IssuesInTurn(n) ==
    Len(p'[n].queried) > Len(p[n].queried) =>
        /\ Len(p'[n].queried) = Len(p[n].queried) + 1
        /\ p[n].pc = IF p[n].queried = <<>> THEN "getBlockNumber" ELSE "getLogs"
        /\ p'[n].pc = "getLogs"
        /\ p'[n].events = p[n].events \o (IF p[n].queried = <<>> THEN <<>>
                                          ELSE GetLogs(n, From(Last(p[n].queried)), To(Last(p[n].queried))))

\* C22: within a pipeline query k+1 is issued only when query k has returned, so at most the
\* last query issued is in flight and what was collected is what the answered queries returned
C22_SequentialChunks ==
    /\ [][\A n \in Nets : IssuesInTurn(n)]_vars
    /\ [](\A n \in Nets :
             LET q == p[n] IN
             /\ Answered(q) \in {Len(q.queried) - 1, Len(q.queried)} /\ Answered(q) >= 0
             /\ ~q.threw => q.events = Concat([k \in 1..Answered(q) |->
                                                  GetLogs(n, From(q.queried[k]), To(q.queried[k]))]))

\* the three pipelines each await a log query at the same moment, one of them its second
C22_Witness ==
    /\ \A n \in Nets : p[n].pc = "getLogs"
    /\ \E n \in Nets : Len(p[n].queried) = 2 /\ Len(p[n].events) = 1

\* the block lookups of a pipeline that are in flight: started and not completed
LookupsInFlight(q) == Range(q.looked) \ DOMAIN q.blockTimestamps

\* lookups are started only when none is in flight, twenty at most at a time
StartsBatch(n) ==
    Len(p'[n].looked) > Len(p[n].looked) =>
        /\ Range(p[n].looked) \subseteq DOMAIN p'[n].blockTimestamps
        /\ Len(p'[n].looked) - Len(p[n].looked) <= 20

\* C23: at most 20 block lookups of one attachTimestamps call are in flight at any moment,
\* and no lookup of a batch is started before every lookup of the batch before has
\* completed, by its block's date or by the fallback
C23_BoundedLookups ==
    /\ [](\A n \in Nets : /\ Cardinality(LookupsInFlight(p[n])) <= 20
                          /\ p[n].pc = "getBlock" => LookupsInFlight(p[n]) = p[n].pending)
    /\ [][\A n \in Nets : StartsBatch(n)]_vars

\* the second batch is in flight, a lookup of the first having fallen back
C23_Witness ==
    \E n \in Nets :
        /\ p[n].pc = "getBlock" /\ p[n].i = 20
        /\ Len(p[n].looked) = 21 /\ Cardinality(p[n].pending) = 1
        /\ Cardinality(DOMAIN p[n].blockTimestamps) = 20
        /\ p[n].fallbacks # {}

BlocksOf(events) == {events[k].blockNumber : k \in 1..Len(events)}

\* C24: one attachTimestamps call looks up no block twice and no block that none of its
\* input events references, and when it returns it has looked up every block they reference
C24_LookupOncePerBlock ==
    \A n \in Nets :
        LET q == p[n] IN
        /\ \A i, j \in 1..Len(q.looked) : i # j => q.looked[i] # q.looked[j]
        /\ Range(q.looked) \subseteq BlocksOf(q.mappedEvents)
        /\ (mode = "reverse" /\ Returned(q)) => Range(q.looked) = BlocksOf(q.mappedEvents)

\* two events share a block, and the call spans two batches
C24_Witness ==
    \E n \in Nets :
        /\ mode = "reverse" /\ Returned(p[n])
        /\ Len(p[n].mappedEvents) = 22 /\ Len(p[n].looked) = 21
        /\ p[n].mappedEvents[21].blockNumber = p[n].mappedEvents[22].blockNumber

\* C25: on the forward path a network contributes all the events of [S, H] or none: a
\* pipeline whose height read or log query failed returns nothing, whatever its earlier
\* chunks delivered, and so the result holds nothing of that network
C25_AllOrNothing ==
    mode = "forward" =>
        \A n \in Nets :
            /\ p[n].pc = "done" => p[n].result \in {<<>>, MapEvents(n, Matching(n))}
            /\ (p[n].pc = "done" /\ p[n].threw) => p[n].result = <<>>
            /\ agg.pc = "returned" => EventsOf(n, agg.output) = p[n].result

\* the query of the second chunk failed after the first chunk had delivered an event
C25_Witness ==
    /\ mode = "forward" /\ agg.pc = "returned"
    /\ \E n \in Nets :
          /\ p[n].threw /\ Len(p[n].queried) = 2 /\ Len(p[n].events) = 1
          /\ EventsOf(n, agg.output) = <<>>
    /\ Len(agg.output) = 1

\* the decoded events a reverse scan hands to attachTimestamps
Decoded(n) == MapEvents(n, RevTruncate(SortByBlock(p[n].events)))

\* C26: attachTimestamps returns its input events in the same number and order, each with
\* its fields as decoded and a timestamp added; the input events stay as they were, without
\* timestamp; and events of one block are given one and the same timestamp
C26_OnlyAddsTimestamp ==
    \A n \in Nets :
        LET q == p[n] IN
        /\ (mode = "reverse" /\ q.pc = "getBlock") => q.mappedEvents = Decoded(n)
        /\ (mode = "reverse" /\ Returned(q)) =>
               /\ q.mappedEvents = Decoded(n)
               /\ Len(q.result) = Len(q.mappedEvents)
               /\ \A k \in 1..Len(q.result) :
                      /\ [q.result[k] EXCEPT !.timestamp = <<>>] = q.mappedEvents[k]
                      /\ q.result[k].timestamp # <<>>
               /\ \A i, j \in 1..Len(q.result) :
                      q.result[i].blockNumber = q.result[j].blockNumber =>
                          q.result[i].timestamp = q.result[j].timestamp

\* two events of one block whose lookup fell back to the wall clock, and one of another block
C26_Witness ==
    \E n \in Nets :
        LET q == p[n] IN
        /\ mode = "reverse" /\ Returned(q) /\ Len(q.result) = 3
        /\ q.result[1].blockNumber = q.result[2].blockNumber
        /\ q.result[1].transactionHash # q.result[2].transactionHash
        /\ q.result[1].blockNumber \in q.fallbacks
        /\ q.result[3].blockNumber # q.result[1].blockNumber

\* C27: every event of a pipeline and of the aggregated result carries the chainId and the
\* name of the network whose client returned its log; the result holds every event the
\* pipelines returned (the latest `limit` of them on the export path), each once by
\* (chainId, transactionHash), so that a hash present on two chains appears for both
C27_OwningNetwork ==
    /\ \A n \in Nets : \A k \in 1..Len(p[n].result) :
          LET e == p[n].result[k] IN
          /\ e.chainId = NETWORKS[n].chainId /\ e.networkName = NETWORKS[n].name
          /\ \E l \in Range(chain[n].logs) :
                l.transactionHash = e.transactionHash /\ l.blockNumber = e.blockNumber
    /\ agg.pc = "returned" =>
          LET total == SumLen([n \in Nets |-> p[n].result], Nets) IN
          /\ \A k \in 1..Len(agg.output) :
                \E n \in Nets : agg.output[k] \in Range(p[n].result)
          /\ Len(agg.output) = IF limit = All THEN total ELSE Min(limit, total)
          /\ Cardinality(Identities(agg.output)) = Len(agg.output)

\* the same transactionHash on two chains, both events returned
C27_Witness ==
    /\ agg.pc = "returned" /\ Len(agg.output) = 2
    /\ agg.output[1].transactionHash = agg.output[2].transactionHash
    /\ agg.output[1].chainId # agg.output[2].chainId
    /\ agg.output[1].networkName # agg.output[2].networkName

\* C28: the events a forward scan returns are in ascending block order, the client
\* returning the logs of a range in chain order
C28_ForwardAscending ==
    \A n \in Nets :
        (mode = "forward" /\ p[n].pc = "done") =>
            \A i, j \in 1..Len(p[n].result) :
                i < j => p[n].result[i].blockNumber <= p[n].result[j].blockNumber

\* events of two chunks, the second chunk holding two blocks with events
C28_Witness ==
    \E n \in Nets :
        LET q == p[n] IN
        /\ mode = "forward" /\ Returned(q) /\ Len(q.queried) >= 2 /\ Len(q.result) = 3
        /\ q.result[1].blockNumber <= To(q.queried[1])
        /\ q.result[2].blockNumber > To(q.queried[1])
        /\ q.result[2].blockNumber < q.result[3].blockNumber

\* once a pipeline has started a block lookup it issues no log query
NoQueryAfterLookup(n) ==
    p[n].looked # <<>> => p'[n].queried = p[n].queried /\ p'[n].pc # "getLogs"

\* C29: on the export path with a numeric limit N a pipeline starts its first block lookup
\* only when its last log query has returned, and it looks up at most N blocks, however
\* many events its chunks held
C29_TruncateBeforeLookup ==
    /\ [](\A n \in Nets :
             (mode = "reverse" /\ limit # All) =>
                 /\ Len(p[n].looked) <= limit
                 /\ p[n].looked # <<>> => Answered(p[n]) = Len(p[n].queried))
    /\ [][\A n \in Nets : NoQueryAfterLookup(n)]_vars

\* three events in three blocks collected, one block looked up
C29_Witness ==
    \E n \in Nets :
        LET q == p[n] IN
        /\ mode = "reverse" /\ limit = 1 /\ Returned(q)
        /\ Cardinality(BlocksOf(MapEvents(n, q.events))) = 3
        /\ Len(q.looked) = 1 /\ Len(q.result) = 1

Timestamped(events) == \A k \in 1..Len(events) : events[k].timestamp # <<>>

\* C30: every event a reverse pipeline returns and every event fetchTransactionsForExport
\* returns has a timestamp, lookups failing or not, so the global sort never compares an
\* event without one
C30_TimestampPresent ==
    mode = "reverse" =>
        /\ \A n \in Nets : p[n].pc = "done" => Timestamped(p[n].result)
        /\ (\A n \in Nets : p[n].pc = "done") => Timestamped(Spread([n \in Nets |-> p[n].result]))
        /\ agg.pc = "returned" => Timestamped(agg.output)

\* two events returned, of two chains, the lookup of one having failed
C30_Witness ==
    /\ mode = "reverse" /\ agg.pc = "returned" /\ Len(agg.output) = 2
    /\ agg.output[1].chainId # agg.output[2].chainId
    /\ \E n \in Nets : p[n].fallbacks # {} /\ Len(p[n].result) = 1
    /\ \E n \in Nets : p[n].fallbacks = {} /\ Len(p[n].result) = 1

====
